---- MODULE Spec2Model ----
(***************************************************************************)
(* Model of SublimeDiffView's diff parser: FileDiff (parser/file_diff.py)  *)
(* and HunkDiff (parser/hunk_diff.py).                                     *)
(*                                                                         *)
(* Text is a sequence of one-character strings.  A view is the text of an  *)
(* editor buffer; a region is a pair of 0-based character offsets [a, b).  *)
(***************************************************************************)
EXTENDS Integers, Sequences, FiniteSets, TLC

VARIABLES
    diff_text,      \* FileDiff.diff_text
    hunks,          \* FileDiff.hunks
    old_view,       \* text of the view showing the old file
    new_view,       \* text of the view showing the new file
    orig_old_view,  \* text of the old view when it was opened
    orig_new_view,  \* text of the new view when it was opened
    parses,         \* number of parse_diff runs made so far
    edits,          \* number of view.replace edits made so far
    first_ret,      \* whether get_hunks was called, and what the first call returned
    last_op         \* the operation that produced this state

vars == <<diff_text, hunks, old_view, new_view, orig_old_view, orig_new_view,
          parses, edits, first_ret, last_op>>

(***************************************************************************)
(* Bounds                                                                  *)
(***************************************************************************)
MaxDiffLines == 5     \* lines of a diff text
MaxParses == 2        \* parse_diff runs on one FileDiff
MaxViewLines == 3     \* lines of a view when it is opened
MaxEdits == 4         \* merges that edit a view

(***************************************************************************)
(* Characters and integers                                                 *)
(***************************************************************************)
NL == "\n"
CR == "\r"

Digits == {"0", "1", "2", "3", "4", "5", "6", "7", "8", "9"}

DigitVal(c) ==
    CASE c = "0" -> 0 [] c = "1" -> 1 [] c = "2" -> 2 [] c = "3" -> 3
      [] c = "4" -> 4 [] c = "5" -> 5 [] c = "6" -> 6 [] c = "7" -> 7
      [] c = "8" -> 8 [] c = "9" -> 9

\* int(s) for a non-empty string of decimal digits
RECURSIVE int(_)
int(s) ==
    IF Len(s) = 0 THEN 0
    ELSE 10 * int(SubSeq(s, 1, Len(s) - 1)) + DigitVal(s[Len(s)])

\* t[p ..] starts with the literal lit
HasLit(t, p, lit) ==
    /\ p + Len(lit) - 1 <= Len(t)
    /\ \A i \in 1..Len(lit) : t[p + i - 1] = lit[i]

\* str.startswith for a one-character prefix
startswith(line, c) == Len(line) >= 1 /\ line[1] = c

\* first position >= p of t that holds no digit
RECURSIVE DigitsEnd(_, _)
DigitsEnd(t, p) ==
    IF p <= Len(t) /\ t[p] \in Digits THEN DigitsEnd(t, p + 1) ELSE p

(***************************************************************************)
(* Regular expressions                                                     *)
(***************************************************************************)
NoMatch == [ok |-> FALSE, stop |-> 0, groups |-> <<>>]

\* HUNK_MATCH = '\r?\n@@ \-(\d+),?(\d*) \+(\d+),?(\d*) @@' tried at position p.
\* Every quantifier is followed by a character it cannot match, so the greedy
\* attempt is the only one that can succeed.
HUNK_MATCH_match(t, p) ==
    LET p0 == IF p <= Len(t) /\ t[p] = CR THEN p + 1 ELSE p
        p1 == p0 + 5                      \* after '\n@@ -'
        e1 == DigitsEnd(t, p1)            \* (\d+)
        p2 == IF e1 <= Len(t) /\ t[e1] = "," THEN e1 + 1 ELSE e1
        e2 == DigitsEnd(t, p2)            \* (\d*)
        p3 == e2 + 2                      \* after ' +'
        e3 == DigitsEnd(t, p3)            \* (\d+)
        p4 == IF e3 <= Len(t) /\ t[e3] = "," THEN e3 + 1 ELSE e3
        e4 == DigitsEnd(t, p4)            \* (\d*)
    IN  IF /\ HasLit(t, p0, <<NL, "@", "@", " ", "-">>)
           /\ e1 > p1
           /\ HasLit(t, e2, <<" ", "+">>)
           /\ e3 > p3
           /\ HasLit(t, e4, <<" ", "@", "@">>)
        THEN [ok |-> TRUE, stop |-> e4 + 3,
              groups |-> << SubSeq(t, p1, e1 - 1), SubSeq(t, p2, e2 - 1),
                            SubSeq(t, p3, e3 - 1), SubSeq(t, p4, e4 - 1) >>]
        ELSE NoMatch

\* HUNK_MATCH.split(t): the text before each match, then the match's four
\* groups, and at the end the text after the last match.
RECURSIVE HUNK_MATCH_scan(_, _, _)
HUNK_MATCH_scan(t, p, from) ==
    IF p > Len(t) THEN << SubSeq(t, from, Len(t)) >>
    ELSE LET m == HUNK_MATCH_match(t, p)
         IN  IF m.ok
             THEN << SubSeq(t, from, p - 1) >> \o m.groups
                      \o HUNK_MATCH_scan(t, m.stop, m.stop)
             ELSE HUNK_MATCH_scan(t, p + 1, from)

HUNK_MATCH_split(t) == HUNK_MATCH_scan(t, 1, 1)

\* NEWLINE_MATCH = '\r?\n': NEWLINE_MATCH.split(t)
RECURSIVE NEWLINE_MATCH_scan(_, _, _)
NEWLINE_MATCH_scan(t, p, from) ==
    IF p > Len(t) THEN << SubSeq(t, from, Len(t)) >>
    ELSE IF t[p] = CR /\ p + 1 <= Len(t) /\ t[p + 1] = NL
         THEN << SubSeq(t, from, p - 1) >> \o NEWLINE_MATCH_scan(t, p + 2, p + 2)
    ELSE IF t[p] = NL
         THEN << SubSeq(t, from, p - 1) >> \o NEWLINE_MATCH_scan(t, p + 1, p + 1)
    ELSE NEWLINE_MATCH_scan(t, p + 1, from)

NEWLINE_MATCH_split(t) == NEWLINE_MATCH_scan(t, 1, 1)

(***************************************************************************)
(* HunkDiff                                                                *)
(***************************************************************************)
UNMERGED == 0
MERGED_RIGHT == 1
MERGED_LEFT == -1

None == [a |-> -1, b |-> -1, set |-> FALSE]     \* a region attribute not set
NoText == << "<unset>" >>                        \* a text attribute not set

Region(a, b) == [a |-> a, b |-> b, set |-> TRUE]

DiffRegion(kind, start_line, start_col, end_line, end_col) ==
    [kind |-> kind, start_line |-> start_line, start_col |-> start_col,
     end_line |-> end_line, end_col |-> end_col]

\* the line cursors started one line down, the header line taken as a line
\* of the hunk
ParseStart_after_header_line(old_line_start, new_line_start) ==
    [old_cur_line |-> old_line_start + 1, new_cur_line |-> new_line_start + 1,
     new_add_start |-> 0, old_del_start |-> 0,
     in_add |-> FALSE, in_del |-> FALSE,
     old_regions |-> <<>>, new_regions |-> <<>>,
     add_lines |-> 0, del_lines |-> 0,
     old_line_focus |-> -1, new_line_focus |-> -1]

\* the local variables and the attributes HunkDiff.parse_diff works on
ParseStart(old_line_start, new_line_start) ==
    [old_cur_line |-> old_line_start, new_cur_line |-> new_line_start,
     new_add_start |-> 0, old_del_start |-> 0,
     in_add |-> FALSE, in_del |-> FALSE,
     old_regions |-> <<>>, new_regions |-> <<>>,
     add_lines |-> 0, del_lines |-> 0,
     old_line_focus |-> -1, new_line_focus |-> -1]

\* one iteration of the loop of HunkDiff.parse_diff
ParseLine(s, line) ==
    LET plus == startswith(line, "+")
        minus == startswith(line, "-")
        endAdd == s.in_add /\ ~plus
        endDel == s.in_del /\ ~minus
        s1 == [s EXCEPT
                 !.new_regions = IF endAdd
                     THEN Append(@, DiffRegion("ADD", s.new_add_start, 0, s.new_cur_line, 0))
                     ELSE @,
                 !.in_add = IF endAdd THEN FALSE ELSE @,
                 !.old_regions = IF endDel
                     THEN Append(@, DiffRegion("DEL", s.old_del_start, 0, s.old_cur_line, 0))
                     ELSE @,
                 !.in_del = IF endDel THEN FALSE ELSE @]
        s2 == IF plus
              THEN [s1 EXCEPT !.add_lines = @ + 1,
                              !.new_add_start = IF s1.in_add THEN @ ELSE s1.new_cur_line,
                              !.in_add = TRUE]
              ELSE IF minus
              THEN [s1 EXCEPT !.del_lines = @ + 1,
                              !.old_del_start = IF s1.in_del THEN @ ELSE s1.old_cur_line,
                              !.in_del = TRUE]
              ELSE s1
        s3 == IF ~startswith(line, " ")
              THEN [s2 EXCEPT
                      !.old_line_focus = IF @ = -1 THEN s2.old_cur_line ELSE @,
                      !.new_line_focus = IF @ = -1 THEN s2.new_cur_line ELSE @]
              ELSE s2
    IN  [s3 EXCEPT !.old_cur_line = IF ~plus THEN @ + 1 ELSE @,
                   !.new_cur_line = IF ~minus THEN @ + 1 ELSE @]

RECURSIVE ParseLoop(_, _, _)
ParseLoop(s, lines, i) ==
    IF i > Len(lines) THEN s ELSE ParseLoop(ParseLine(s, lines[i]), lines, i + 1)

\* the loop without the closing line
HunkDiff_parse_diff_unclosed(old_line_start, new_line_start, hunk_diff_lines) ==
    ParseLoop(ParseStart(old_line_start, new_line_start), hunk_diff_lines, 1)

\* HunkDiff.parse_diff: the loop runs over hunk_diff_lines + [' ']
HunkDiff_parse_diff(old_line_start, new_line_start, hunk_diff_lines) ==
    ParseLoop(ParseStart(old_line_start, new_line_start),
              Append(hunk_diff_lines, << " " >>), 1)

\* a length field left out of the header read as no lines
hunk_len_or_zero(field) == IF Len(field) > 0 THEN int(field) ELSE 0

\* the length 1 whatever the header says
hunk_len_one(field) == 1

\* old_hunk_len / new_hunk_len: 1 unless the header has the length field
hunk_len(field) == IF Len(field) > 0 THEN int(field) ELSE 1

\* the classification with the test of add_lines first
hunk_type_add_lines_first(add_lines, del_lines) ==
    IF add_lines = 0 THEN "DEL"
    ELSE IF del_lines = 0 THEN "ADD" ELSE "MOD"

\* hunk_type: del_lines is tested first
hunk_type(add_lines, del_lines) ==
    IF del_lines = 0 THEN "ADD"
    ELSE IF add_lines = 0 THEN "DEL" ELSE "MOD"

\* HunkDiff.__init__(file_diff, match)
HunkDiff(match) ==
    LET old_line_start == int(match[1])
        old_hunk_len == hunk_len(match[2])
        new_line_start == int(match[3])
        new_hunk_len == hunk_len(match[4])
        body == NEWLINE_MATCH_split(match[5])
        hunk_diff_lines == SubSeq(body, 2, Len(body))
        s == HunkDiff_parse_diff(old_line_start, new_line_start, hunk_diff_lines)
    IN  [dummy |-> FALSE,
         count |-> 0,
         old_regions |-> s.old_regions,
         new_regions |-> s.new_regions,
         old_line_focus |-> s.old_line_focus,
         new_line_focus |-> s.new_line_focus,
         full_old_region |-> None,
         full_new_region |-> None,
         full_old_text |-> NoText,
         full_new_text |-> NoText,
         merge_state |-> UNMERGED,
         old_line_start |-> old_line_start,
         old_hunk_len |-> old_hunk_len,
         new_line_start |-> new_line_start,
         new_hunk_len |-> new_hunk_len,
         context |-> body[1],
         hunk_diff_lines |-> hunk_diff_lines,
         add_lines |-> s.add_lines,
         del_lines |-> s.del_lines,
         hunk_type |-> hunk_type(s.add_lines, s.del_lines)]

\* DummyHunkDiff(file_diff, count): the header pseudo-hunk; it has no regions
DummyHunkDiff(count) ==
    [dummy |-> TRUE,
     count |-> count,
     old_regions |-> <<>>,
     new_regions |-> <<>>,
     old_line_focus |-> 0,
     new_line_focus |-> 0,
     full_old_region |-> None,
     full_new_region |-> None,
     full_old_text |-> NoText,
     full_new_text |-> NoText,
     merge_state |-> UNMERGED,
     old_line_start |-> 0,
     old_hunk_len |-> 0,
     new_line_start |-> 0,
     new_hunk_len |-> 0,
     context |-> <<>>,
     hunk_diff_lines |-> <<>>,
     add_lines |-> 0,
     del_lines |-> 0,
     hunk_type |-> "HEADER"]

(***************************************************************************)
(* The editor's view API, as HunkDiff uses it                              *)
(***************************************************************************)
\* view.text_point(row, col): the offset of column col of the 0-based row;
\* a row past the last one gives the size of the buffer.
RECURSIVE RowStart(_, _, _)
RowStart(view, row, p) ==
    IF row <= 0 THEN p - 1
    ELSE IF p > Len(view) THEN Len(view)
    ELSE RowStart(view, IF view[p] = NL THEN row - 1 ELSE row, p + 1)

text_point(view, row, col) ==
    LET pt == RowStart(view, row, 1) + col
    IN  IF pt > Len(view) THEN Len(view) ELSE pt

Clamp(view, pt) == IF pt > Len(view) THEN Len(view) ELSE pt

\* view.substr(region)
substr(view, region) ==
    SubSeq(view, Clamp(view, region.a) + 1, Clamp(view, region.b))

\* view.replace(edit, region, text): the view's text afterwards
replace(view, region, text) ==
    SubSeq(view, 1, Clamp(view, region.a)) \o text
        \o SubSeq(view, Clamp(view, region.b) + 1, Len(view))

\* the truth value of a region attribute: None and an empty Region are false
Region_bool(r) == r.set /\ r.a # r.b

(***************************************************************************)
(* HunkDiff: region queries and merging                                    *)
(***************************************************************************)
\* HunkDiff.get_old_regions(view): the hunk afterwards
get_old_regions_hunk(h, view) ==
    IF ~Region_bool(h.full_old_region)
    THEN LET r == Region(text_point(view, h.old_line_start - 1, 0),
                         text_point(view, h.old_line_start + h.old_hunk_len - 1, 0))
         IN  [h EXCEPT !.full_old_region = r, !.full_old_text = substr(view, r)]
    ELSE h

\* HunkDiff.get_new_regions(view): the hunk afterwards
get_new_regions_hunk(h, view) ==
    IF ~Region_bool(h.full_new_region)
    THEN LET r == Region(text_point(view, h.new_line_start - 1, 0),
                         text_point(view, h.new_line_start + h.new_hunk_len - 1, 0))
         IN  [h EXCEPT !.full_new_region = r, !.full_new_text = substr(view, r)]
    ELSE h

\* merge_valid without the state test for 'right'
merge_valid_right_always(h, direction) ==
    h.merge_state = UNMERGED \/ direction = "right" \/
    (h.merge_state = MERGED_RIGHT /\ direction = "left")

\* merge_valid with the two undo directions exchanged
merge_valid_swapped(h, direction) ==
    IF h.merge_state = UNMERGED THEN TRUE
    ELSE IF h.merge_state = MERGED_LEFT /\ direction = "left" THEN TRUE
    ELSE IF h.merge_state = MERGED_RIGHT /\ direction = "right" THEN TRUE
    ELSE FALSE

\* HunkDiff.merge_valid(direction)
merge_valid(h, direction) ==
    IF h.merge_state = UNMERGED THEN TRUE
    ELSE IF h.merge_state = MERGED_LEFT /\ direction = "right" THEN TRUE
    ELSE IF h.merge_state = MERGED_RIGHT /\ direction = "left" THEN TRUE
    ELSE FALSE

\* merge_changing_view that ignores merge_state
merge_changing_view_stateless(h, direction) == direction

\* HunkDiff.merge_changing_view(direction)
merge_changing_view(h, direction) ==
    IF direction = "right"
    THEN IF h.merge_state = MERGED_LEFT THEN "left" ELSE "right"
    ELSE IF h.merge_state = MERGED_RIGHT THEN "right" ELSE "left"

\* the text HunkDiff.merge writes
merge_text(h, direction) ==
    IF direction = "right" THEN h.full_old_text ELSE h.full_new_text

\* the region HunkDiff.merge replaces
merge_region(h, direction) ==
    IF merge_changing_view(h, direction) = "right"
    THEN h.full_new_region ELSE h.full_old_region

\* merge refusing a direction merge_valid does not allow
merge_raises_unless_valid(h, direction) ==
    \/ merge_text(h, direction) = NoText
    \/ ~merge_region(h, direction).set
    \/ ~merge_valid(h, direction)


\* merge cannot get past view.replace: the text attribute was never assigned,
\* or the region is still None
merge_raises(h, direction) ==
    \/ merge_text(h, direction) = NoText
    \/ ~merge_region(h, direction).set

\* the state update incrementing whatever the direction
merge_next_state_increment(h, direction) == h.merge_state + 1

\* the state update at the end of HunkDiff.merge
merge_next_state(h, direction) ==
    IF direction = "right" THEN h.merge_state + 1 ELSE h.merge_state - 1

\* the hunk after a merge that also moves the end of the full region of the
\* view it wrote to
merge_hunk_updating_region(h, v, direction) ==
    LET text == merge_text(h, direction)
    IN  IF v = "right"
        THEN [h EXCEPT !.merge_state = merge_next_state(h, direction),
                       !.full_new_region.b = h.full_new_region.a + Len(text)]
        ELSE [h EXCEPT !.merge_state = merge_next_state(h, direction),
                       !.full_old_region.b = h.full_old_region.a + Len(text)]

\* the hunk after HunkDiff.merge: merge_state is the one attribute assigned
merge_hunk(h, v, direction) ==
    [h EXCEPT !.merge_state = merge_next_state(h, direction)]

Directions == {"right", "left"}
Opposite(direction) == IF direction = "right" THEN "left" ELSE "right"

ViewText(v) == IF v = "left" THEN old_view ELSE new_view
Pristine == old_view = orig_old_view /\ new_view = orig_new_view

\* h.get_old_regions(view) on the view of the old file
get_old_regions(i) ==
    /\ i \in 1..Len(hunks)
    /\ ~hunks[i].dummy
    /\ hunks' = [hunks EXCEPT ![i] = get_old_regions_hunk(@, old_view)]
    /\ last_op' = [op |-> "get_old_regions", hunk |-> i]
    /\ UNCHANGED <<diff_text, old_view, new_view, orig_old_view, orig_new_view,
                   parses, edits, first_ret>>

\* h.get_new_regions(view) on the view of the new file
get_new_regions(i) ==
    /\ i \in 1..Len(hunks)
    /\ ~hunks[i].dummy
    /\ hunks' = [hunks EXCEPT ![i] = get_new_regions_hunk(@, new_view)]
    /\ last_op' = [op |-> "get_new_regions", hunk |-> i]
    /\ UNCHANGED <<diff_text, old_view, new_view, orig_old_view, orig_new_view,
                   parses, edits, first_ret>>

\* h.merge_valid(direction), called by the merge commands
merge_valid_call(i, direction) ==
    /\ i \in 1..Len(hunks)
    /\ ~hunks[i].dummy
    /\ last_op' = [op |-> "merge_valid", hunk |-> i, direction |-> direction,
                   ret |-> merge_valid(hunks[i], direction)]
    /\ UNCHANGED <<diff_text, hunks, old_view, new_view, orig_old_view,
                   orig_new_view, parses, edits, first_ret>>

\* merge with the state update moved before the text replacement
merge_state_updated_first(i, v, direction) ==
    /\ i \in 1..Len(hunks)
    /\ ~hunks[i].dummy
    /\ LET h == hunks[i]
           text == merge_text(h, direction)
           region == merge_region(h, direction)
           after == replace(ViewText(v), region, text)
       IN  /\ hunks' = [hunks EXCEPT ![i] = merge_hunk(h, v, direction)]
           /\ last_op' = [op |-> "merge", hunk |-> i, view |-> v,
                          direction |-> direction,
                          raised |-> merge_raises(h, direction),
                          state_before |-> h.merge_state,
                          designated |-> v = merge_changing_view(h, direction),
                          pristine |-> Pristine]
           /\ IF merge_raises(h, direction)
              THEN UNCHANGED <<old_view, new_view, edits>>
              ELSE /\ edits < MaxEdits
                   /\ edits' = edits + 1
                   /\ old_view' = IF v = "left" THEN after ELSE old_view
                   /\ new_view' = IF v = "right" THEN after ELSE new_view
    /\ UNCHANGED <<diff_text, orig_old_view, orig_new_view, parses, first_ret>>

\* h.merge(view, edit, direction), v naming the view that is passed
merge(i, v, direction) ==
    /\ i \in 1..Len(hunks)
    /\ ~hunks[i].dummy
    /\ LET h == hunks[i]
           text == merge_text(h, direction)
           region == merge_region(h, direction)
           after == replace(ViewText(v), region, text)
       IN  IF merge_raises(h, direction)
           THEN /\ UNCHANGED <<hunks, old_view, new_view, edits>>
                /\ last_op' = [op |-> "merge", hunk |-> i, view |-> v,
                               direction |-> direction, raised |-> TRUE,
                               state_before |-> h.merge_state,
                               designated |-> v = merge_changing_view(h, direction),
                               pristine |-> Pristine]
           ELSE /\ edits < MaxEdits
                /\ edits' = edits + 1
                /\ old_view' = IF v = "left" THEN after ELSE old_view
                /\ new_view' = IF v = "right" THEN after ELSE new_view
                /\ hunks' = [hunks EXCEPT ![i] = merge_hunk(h, v, direction)]
                /\ last_op' = [op |-> "merge", hunk |-> i, view |-> v,
                               direction |-> direction, raised |-> FALSE,
                               state_before |-> h.merge_state,
                               designated |-> v = merge_changing_view(h, direction),
                               pristine |-> Pristine]
    /\ UNCHANGED <<diff_text, orig_old_view, orig_new_view, parses, first_ret>>

(***************************************************************************)
(* FileDiff                                                                *)
(***************************************************************************)
match_len == 5

\* the while loop putting each new HunkDiff in front of the list
RECURSIVE ParseChunks_prepending(_, _)
ParseChunks_prepending(acc, pieces) ==
    IF Len(pieces) >= match_len
    THEN ParseChunks_prepending(<< HunkDiff(SubSeq(pieces, 1, match_len)) >> \o acc,
                                SubSeq(pieces, match_len + 1, Len(pieces)))
    ELSE acc

\* the while loop of FileDiff.parse_diff: one HunkDiff per chunk of match_len
RECURSIVE ParseChunks(_, _)
ParseChunks(acc, pieces) ==
    IF Len(pieces) >= match_len
    THEN ParseChunks(Append(acc, HunkDiff(SubSeq(pieces, 1, match_len))),
                     SubSeq(pieces, match_len + 1, Len(pieces)))
    ELSE acc

\* FileDiff.parse_diff(include_headers): the value of self.hunks afterwards
FileDiff_parse_diff(self_hunks, text, include_headers) ==
    LET split == HUNK_MATCH_split(text)
        pieces == Tail(split)                           \* hunks.pop(0)
        appended == ParseChunks(self_hunks, pieces)
    IN  IF include_headers
        THEN << DummyHunkDiff(Len(appended)) >> \o appended
        ELSE appended

\* `not self.hunks`
NeedsParse(self_hunks) == Len(self_hunks) = 0

\* FileDiff.get_hunks(include_headers)
get_hunks(include_headers) ==
    /\ IF NeedsParse(hunks)
       THEN /\ parses < MaxParses
            /\ hunks' = FileDiff_parse_diff(hunks, diff_text, include_headers)
            /\ parses' = parses + 1
       ELSE UNCHANGED <<hunks, parses>>
    /\ first_ret' = IF first_ret.called THEN first_ret
                    ELSE [called |-> TRUE, ret |-> hunks']
    /\ last_op' = [op |-> "get_hunks", include_headers |-> include_headers]
    /\ UNCHANGED <<diff_text, old_view, new_view, orig_old_view, orig_new_view, edits>>

(***************************************************************************)
(* Inputs                                                                  *)
(***************************************************************************)
\* lines a diff text is made of
LPre == << "d" >>
LHeadA == << "@", "@", " ", "-", "1", "0", ",", "2", " ", "+", "1", "0", ",", "3", " ", "@", "@", " ", "u" >>
LHeadB == << "@", "@", " ", "-", "4", " ", "+", "5", ",", "0", " ", "@", "@" >>
LAdd == << "+", "n" >>
LDel == << "-", "o", CR >>
LCtx == << " ", "o" >>

DiffLines == {LPre, LHeadA, LHeadB, LAdd, LDel, LCtx}

SeqsUpTo(S, n) == UNION { [1..k -> S] : k \in 0..n }

\* the lines joined by '\n'
RECURSIVE Join(_)
Join(ls) ==
    IF Len(ls) = 0 THEN <<>>
    ELSE IF Len(ls) = 1 THEN ls[1]
    ELSE ls[1] \o << NL >> \o Join(Tail(ls))

\* diff texts: up to MaxDiffLines lines, with or without a final newline
DiffTexts ==
    { Join(ls) \o (IF nl THEN << NL >> ELSE <<>>) :
        ls \in SeqsUpTo(DiffLines, MaxDiffLines), nl \in BOOLEAN }

\* the hunk '@@ -10,2 +10,3 @@' with 'unchanged' on the header line and the
\* body lines '+new line' and ' old line2'
LHeadEx == << "@", "@", " ", "-", "1", "0", ",", "2", " ", "+", "1", "0", ",", "3", " ", "@", "@", "u", "n", "c", "h", "a", "n", "g", "e", "d" >>
LAddEx == << "+", "n", "e", "w", " ", "l", "i", "n", "e" >>
LCtxEx == << " ", "o", "l", "d", " ", "l", "i", "n", "e", "2" >>
ExampleDiff == Join(<< LPre, LHeadEx, LAddEx, LCtxEx >>)

(***************************************************************************)
(* Parsing a FileDiff: FileDiff(filename, abs_filename, diff_text), then   *)
(* any sequence of get_hunks calls.                                        *)
(***************************************************************************)
InitParse ==
    /\ diff_text \in DiffTexts \cup {ExampleDiff}
    /\ hunks = <<>>
    /\ old_view = <<>>
    /\ new_view = <<>>
    /\ orig_old_view = <<>>
    /\ orig_new_view = <<>>
    /\ parses = 0
    /\ edits = 0
    /\ first_ret = [called |-> FALSE, ret |-> <<>>]
    /\ last_op = [op |-> "init"]

NextParse == \E include_headers \in BOOLEAN : get_hunks(include_headers)

SpecParse == InitParse /\ [][NextParse]_vars

(***************************************************************************)
(* Merging: a FileDiff whose two files are open in a pair of views         *)
(***************************************************************************)
MHeadA == << "@", "@", " ", "-", "1", ",", "2", " ", "+", "1", " ", "@", "@" >>
MHeadB == << "@", "@", " ", "-", "2", " ", "+", "1", ",", "2", " ", "@", "@", " ", "u" >>
MHeadC == << "@", "@", " ", "-", "1", ",", "0", " ", "+", "2", " ", "@", "@" >>
MHeadD == << "@", "@", " ", "-", "2", " ", "+", "1", " ", "@", "@" >>
MHeadE == << "@", "@", " ", "-", "1", " ", "+", "1", " ", "@", "@" >>
MHeadF == << "@", "@", " ", "-", "2", " ", "+", "2", ",", "0", " ", "@", "@" >>

\* diffs of one hunk
OneHunkDiffs ==
    { Join(<<LPre, MHeadA, LDel, LDel, LAdd>>),
      Join(<<LPre, MHeadB, LDel, LAdd, LAdd>>) \o << NL >>,
      Join(<<LPre, MHeadC, LAdd>>),
      Join(<<LPre, MHeadD, LDel, LAdd>>) }

\* diffs of two hunks
TwoHunkDiffs ==
    { Join(<<LPre, MHeadE, LDel, LAdd, MHeadF, LDel>>) }

\* the k-th line of the old file and of the new file
OldLine(k) == IF k % 2 = 1 THEN << "a" >> ELSE << "b", "b" >>
NewLine(k) == IF k % 2 = 1 THEN << "x", "x" >> ELSE << "y" >>

\* every line followed by '\n'
RECURSIVE Lines(_)
Lines(ls) == IF Len(ls) = 0 THEN <<>> ELSE ls[1] \o << NL >> \o Lines(Tail(ls))

\* files of up to MaxViewLines lines
OldTexts == { Lines([k \in 1..n |-> OldLine(k)]) : n \in 1..MaxViewLines }
NewTexts == { Lines([k \in 1..n |-> NewLine(k)]) : n \in 1..MaxViewLines }

\* FileDiff(filename, abs_filename, diff_text) and the two views opened on
\* its old and new file
InitViews(diffs) ==
    /\ diff_text \in diffs
    /\ hunks = <<>>
    /\ old_view \in OldTexts
    /\ new_view \in NewTexts
    /\ orig_old_view = old_view
    /\ orig_new_view = new_view
    /\ parses = 0
    /\ edits = 0
    /\ first_ret = [called |-> FALSE, ret |-> <<>>]
    /\ last_op = [op |-> "init"]

Init == InitViews(OneHunkDiffs)

Next ==
    \/ \E include_headers \in BOOLEAN : get_hunks(include_headers)
    \/ \E i \in 1..Len(hunks) : get_old_regions(i)
    \/ \E i \in 1..Len(hunks) : get_new_regions(i)
    \/ \E i \in 1..Len(hunks), d \in Directions : merge_valid_call(i, d)
    \/ \E i \in 1..Len(hunks), v \in {"left", "right"}, d \in Directions :
           merge(i, v, d)

Spec == Init /\ [][Next]_vars

\* the callers keep merge's contract: both sides were queried, the direction
\* is valid and the view passed is the one merge_changing_view names
merge_in_contract(i, v, d) ==
    /\ i \in 1..Len(hunks)
    /\ hunks[i].full_old_region.set
    /\ hunks[i].full_new_region.set
    /\ merge_valid(hunks[i], d)
    /\ v = merge_changing_view(hunks[i], d)
    /\ merge(i, v, d)

NextContract ==
    \/ \E include_headers \in BOOLEAN : get_hunks(include_headers)
    \/ \E i \in 1..Len(hunks) : get_old_regions(i)
    \/ \E i \in 1..Len(hunks) : get_new_regions(i)
    \/ \E i \in 1..Len(hunks), d \in Directions : merge_valid_call(i, d)
    \/ \E i \in 1..Len(hunks), v \in {"left", "right"}, d \in Directions :
           merge_in_contract(i, v, d)

InitContract == InitViews(OneHunkDiffs \cup TwoHunkDiffs)

SpecContract == InitContract /\ [][NextContract]_vars

(***************************************************************************)
(* Properties of the merge state machine                                   *)
(***************************************************************************)
RealHunkIdx(hs) == { i \in 1..Len(hs) : ~hs[i].dummy }

\* this step is a call merge(.., d) on hunk i that ran to its end
MergeDone(i, d) ==
    /\ last_op'.op = "merge"
    /\ last_op'.hunk = i
    /\ last_op'.direction = d
    /\ ~last_op'.raised

\* merge_valid as the documentation states it
ValidByState(state, d) ==
    \/ state = UNMERGED
    \/ d = "right" /\ state = MERGED_LEFT
    \/ d = "left" /\ state = MERGED_RIGHT

MergedTo(d) == IF d = "right" THEN MERGED_RIGHT ELSE MERGED_LEFT

\* C2: a freshly parsed hunk is UNMERGED and both directions are valid; a
\* merge in direction d from UNMERGED leaves the hunk merged to d, with d no
\* longer valid and the opposite direction valid; the opposite merge then
\* returns the hunk to UNMERGED (for d = right and for d = left).
C2_MergeStateMachine ==
    [][ \A i \in RealHunkIdx(hunks') :
          /\ Len(hunks) = 0 =>
                /\ hunks'[i].merge_state = UNMERGED
                /\ merge_valid(hunks'[i], "right")
                /\ merge_valid(hunks'[i], "left")
          /\ \A d \in Directions :
                /\ (MergeDone(i, d) /\ last_op'.state_before = UNMERGED) =>
                      /\ hunks'[i].merge_state = MergedTo(d)
                      /\ ~merge_valid(hunks'[i], d)
                      /\ merge_valid(hunks'[i], Opposite(d))
                /\ (MergeDone(i, d) /\ last_op'.state_before = MergedTo(Opposite(d))) =>
                      hunks'[i].merge_state = UNMERGED
      ]_vars

\* a hunk was merged right and then merged left again
C2_Witness ==
    /\ last_op.op = "merge"
    /\ ~last_op.raised
    /\ last_op.direction = "left"
    /\ last_op.state_before = MERGED_RIGHT
    /\ hunks[last_op.hunk].merge_state = UNMERGED

\* C3: when merge is only called in a direction merge_valid allows, every
\* hunk's merge_state is UNMERGED, MERGED_LEFT or MERGED_RIGHT and at least
\* one direction is valid for it.
C3_StateInEnum ==
    \A i \in RealHunkIdx(hunks) :
        /\ hunks[i].merge_state \in {UNMERGED, MERGED_LEFT, MERGED_RIGHT}
        /\ \E d \in Directions : merge_valid(hunks[i], d)

\* two hunks of one file merged in different directions
C3_Witness ==
    /\ Len(hunks) = 2
    /\ hunks[1].merge_state = MERGED_LEFT
    /\ hunks[2].merge_state = MERGED_RIGHT
    /\ last_op.op = "merge"

\* C5: merge_valid(direction) is true exactly when merge_state is UNMERGED,
\* or direction is right and merge_state is MERGED_LEFT, or direction is left
\* and merge_state is MERGED_RIGHT; a call of merge_valid changes no state.
C5_MergeValid ==
    [][ /\ \A i \in RealHunkIdx(hunks), d \in Directions :
              merge_valid(hunks[i], d) <=> ValidByState(hunks[i].merge_state, d)
        /\ last_op'.op = "merge_valid" =>
              /\ last_op'.ret <=>
                    ValidByState(hunks[last_op'.hunk].merge_state, last_op'.direction)
              /\ UNCHANGED <<diff_text, hunks, old_view, new_view, parses, edits, first_ret>>
      ]_vars

\* merge_valid('right') answered true for a hunk that is MERGED_LEFT
C5_Witness ==
    /\ last_op.op = "merge_valid"
    /\ last_op.direction = "right"
    /\ last_op.ret
    /\ hunks[last_op.hunk].merge_state = MERGED_LEFT

\* the text a view holds after [a, b) of it was replaced
Spliced(view, region, text) ==
    LET a == IF region.a > Len(view) THEN Len(view) ELSE region.a
        b == IF region.b > Len(view) THEN Len(view) ELSE region.b
    IN  [k \in 1..(a + Len(text) + Len(view) - b) |->
            IF k <= a THEN view[k]
            ELSE IF k <= a + Len(text) THEN text[k - a]
            ELSE view[k - a - Len(text) + b]]

\* C6: merge writes the cached old-side text for right and the cached
\* new-side text for left; it replaces the new-side full region when
\* merge_changing_view is 'right' and the old-side full region when it is
\* 'left'; merge_changing_view('right') is 'left' exactly when the hunk is
\* MERGED_LEFT and merge_changing_view('left') is 'right' exactly when it is
\* MERGED_RIGHT.
C6_MergeCopies ==
    [][ \A i \in RealHunkIdx(hunks) :
          LET h == hunks[i] IN
          /\ merge_changing_view(h, "right") \in {"left", "right"}
          /\ merge_changing_view(h, "left") \in {"left", "right"}
          /\ merge_changing_view(h, "right") = "left" <=> h.merge_state = MERGED_LEFT
          /\ merge_changing_view(h, "left") = "right" <=> h.merge_state = MERGED_RIGHT
          /\ \A d \in Directions :
               MergeDone(i, d) =>
                 LET text == IF d = "right" THEN h.full_old_text ELSE h.full_new_text
                     changing == IF d = "right"
                                 THEN (IF h.merge_state = MERGED_LEFT THEN "left" ELSE "right")
                                 ELSE (IF h.merge_state = MERGED_RIGHT THEN "right" ELSE "left")
                     region == IF changing = "right"
                               THEN h.full_new_region ELSE h.full_old_region
                 IN  IF last_op'.view = "left"
                     THEN /\ old_view' = Spliced(old_view, region, text)
                          /\ new_view' = new_view
                     ELSE /\ new_view' = Spliced(new_view, region, text)
                          /\ old_view' = old_view
      ]_vars

\* a right merge of a MERGED_LEFT hunk wrote the old-side text back into the
\* old view
C6_Witness ==
    /\ last_op.op = "merge"
    /\ ~last_op.raised
    /\ last_op.direction = "right"
    /\ last_op.state_before = MERGED_LEFT
    /\ last_op.view = "left"
    /\ last_op.designated
    /\ hunks[last_op.hunk].full_old_text # hunks[last_op.hunk].full_new_text
    /\ old_view # new_view

\* the full region and text of both sides of h are those of the views as
\* they were opened
CapturedUnmodified(h) ==
    LET ro == Region(text_point(orig_old_view, h.old_line_start - 1, 0),
                     text_point(orig_old_view, h.old_line_start + h.old_hunk_len - 1, 0))
        rn == Region(text_point(orig_new_view, h.new_line_start - 1, 0),
                     text_point(orig_new_view, h.new_line_start + h.new_hunk_len - 1, 0))
    IN  /\ h.full_old_region = ro
        /\ h.full_old_text = substr(orig_old_view, ro)
        /\ h.full_new_region = rn
        /\ h.full_new_text = substr(orig_new_view, rn)

\* C1: for a hunk whose full regions and texts were captured from the
\* unmodified views, merge(d) followed by merge(opposite of d), each on the
\* view merge_changing_view designates, leaves both views' text as it was
\* before the first merge.
C1_RoundTrip ==
    [][ ( /\ last_op.op = "merge"
          /\ ~last_op.raised
          /\ last_op.pristine
          /\ last_op.designated
          /\ last_op.state_before = UNMERGED
          /\ CapturedUnmodified(hunks[last_op.hunk])
          /\ MergeDone(last_op.hunk, Opposite(last_op.direction))
          /\ last_op'.designated )
        => (old_view' = orig_old_view /\ new_view' = orig_new_view)
      ]_vars

\* C4: merge(direction) on a hunk for which merge_valid(direction) is false
\* reports the invalid state and changes neither merge_state nor the text.
C4_InvalidMergeRejected ==
    [][ ( /\ last_op'.op = "merge"
          /\ ~merge_valid(hunks[last_op'.hunk], last_op'.direction) )
        => (last_op'.raised /\ UNCHANGED <<hunks, old_view, new_view>>)
      ]_vars

(***************************************************************************)
(* Properties of FileDiff.get_hunks                                        *)
(***************************************************************************)
\* the hunks of the diff text, in diff order
RealHunks(hs) == SelectSeq(hs, LAMBDA h : ~h.dummy)

\* the diff text line by line
TextLines == NEWLINE_MATCH_split(diff_text)

\* what the header lines of the diff texts say
HeaderFields(l) ==
    IF l = LHeadA
    THEN [old_line_start |-> 10, old_hunk_len |-> 2, new_line_start |-> 10,
          new_hunk_len |-> 3, context |-> << " ", "u" >>]
    ELSE IF l = LHeadEx
    THEN [old_line_start |-> 10, old_hunk_len |-> 2, new_line_start |-> 10,
          new_hunk_len |-> 3, context |-> SubSeq(LHeadEx, 18, Len(LHeadEx))]
    ELSE [old_line_start |-> 4, old_hunk_len |-> 1, new_line_start |-> 5,
          new_hunk_len |-> 0, context |-> <<>>]

\* the lines that are hunk headers: a header needs a line break before it
HeaderLinesOf(lines) ==
    { j \in 2..Len(lines) : lines[j] \in {LHeadA, LHeadB, LHeadEx} }

HeaderIdx == HeaderLinesOf(TextLines)

\* the i-th element of a set of line numbers
Nth(idx, i) == CHOOSE j \in idx : Cardinality({ m \in idx : m < j }) = i - 1

\* the last line of the hunk whose header is line j
BodyEnd(lines, idx, j) ==
    IF \E m \in idx : m > j
    THEN (CHOOSE m \in idx : m > j /\ \A n \in idx : n > j => m <= n) - 1
    ELSE Len(lines)

\* the index of the first line of ls satisfying Test, or 0
FirstLine(ls, Test(_)) ==
    IF \E f \in 1..Len(ls) : Test(ls[f])
    THEN CHOOSE f \in 1..Len(ls) : Test(ls[f]) /\ \A g \in 1..(f - 1) : ~Test(ls[g])
    ELSE 0

NotContext(l) == ~startswith(l, " ")
IsAdd(l) == startswith(l, "+")
IsDel(l) == startswith(l, "-")

\* C7: the diff is parsed at most once; every get_hunks call after the
\* first returns the hunk list the first call returned.
C7_ParsedOnce ==
    /\ parses <= 1
    /\ first_ret.called => hunks = first_ret.ret

\* C8: get_hunks(include_headers=true) returns the dummy header hunk
\* followed by the real hunks in diff order, get_hunks(include_headers=false)
\* returns only the real hunks, whatever earlier calls asked for.
C8_HeadersAsRequested ==
    last_op.op = "get_hunks" =>
        IF last_op.include_headers
        THEN /\ Len(hunks) >= 1
             /\ hunks[1].dummy
             /\ hunks[1].old_regions = <<>> /\ hunks[1].new_regions = <<>>
             /\ Tail(hunks) = RealHunks(hunks)
             /\ Len(RealHunks(hunks)) = Cardinality(HeaderIdx)
        ELSE /\ hunks = RealHunks(hunks)
             /\ Len(hunks) = Cardinality(HeaderIdx)

\* C9: for a diff text without hunk header, get_hunks returns an empty list
\* for either value of include_headers.
C9_NoHeaderNoHunks ==
    (last_op.op = "get_hunks" /\ HeaderIdx = {}) => hunks = <<>>

\* C10: a diff text with k hunk headers yields k hunks in header order; the
\* i-th hunk has the start lines and lengths of the i-th header and the
\* lines between that header and the next one (or the end of the text) as
\* its body; its line cursors start from its own start lines.
C10_HunkPerHeader ==
    parses >= 1 =>
        LET real == RealHunks(hunks)
            lines == TextLines
            idx == HeaderLinesOf(lines)
        IN
        /\ Len(real) = Cardinality(idx)
        /\ \A i \in 1..Len(real) :
             LET j == Nth(idx, i)
                 f == HeaderFields(lines[j])
                 body == SubSeq(lines, j + 1, BodyEnd(lines, idx, j))
                 focus == FirstLine(body, NotContext)
                 add == FirstLine(body, IsAdd)
                 del == FirstLine(body, IsDel)
                 before(n, Skip(_)) ==
                     Cardinality({ g \in 1..(n - 1) : ~Skip(body[g]) })
             IN  /\ real[i].old_line_start = f.old_line_start
                 /\ real[i].old_hunk_len = f.old_hunk_len
                 /\ real[i].new_line_start = f.new_line_start
                 /\ real[i].new_hunk_len = f.new_hunk_len
                 /\ real[i].context = f.context
                 /\ real[i].hunk_diff_lines = body
                 /\ focus # 0 =>
                       /\ real[i].old_line_focus = f.old_line_start + focus - 1
                       /\ real[i].new_line_focus = f.new_line_start + focus - 1
                 /\ add # 0 =>
                       real[i].new_regions[1].start_line
                           = f.new_line_start + before(add, IsDel)
                 /\ del # 0 =>
                       real[i].old_regions[1].start_line
                           = f.old_line_start + before(del, IsAdd)

\* two hunks were parsed: the first has an added line, and the second takes
\* its focus lines from its own header
C10_Witness ==
    /\ last_op.op = "get_hunks"
    /\ ~last_op.include_headers
    /\ Len(hunks) = 2
    /\ hunks[1].old_line_start # hunks[2].old_line_start
    /\ Len(hunks[1].new_regions) = 1
    /\ hunks[2].old_line_focus = hunks[2].old_line_start
    /\ hunks[2].new_line_focus = hunks[2].new_line_start

(***************************************************************************)
(* Properties of HunkDiff parsing                                          *)
(***************************************************************************)
IsChange(l) == IsAdd(l) \/ IsDel(l)
IsContextLine(l) == startswith(l, " ")

\* the lines before line n of a body that satisfy Test
Before(body, n, Test(_)) == Cardinality({ g \in 1..(n - 1) : Test(body[g]) })

\* C11: a hunk whose body has a '+' or '-' line, after context lines only,
\* has its focus lines at the line cursors of the first such line (its start
\* lines plus the number of context lines before it); a hunk whose body has
\* context lines only, a trailing empty line included, keeps both focus
\* lines at -1.
C11_FocusAtFirstChange ==
    \A i \in 1..Len(hunks) :
        ~hunks[i].dummy =>
            LET h == hunks[i]
                body == h.hunk_diff_lines
                c == FirstLine(body, IsChange)
            IN  /\ (c # 0 /\ \A g \in 1..(c - 1) : IsContextLine(body[g])) =>
                      /\ h.old_line_focus
                            = h.old_line_start + Before(body, c, IsContextLine)
                      /\ h.new_line_focus
                            = h.new_line_start + Before(body, c, IsContextLine)
                /\ (c = 0 /\ \A g \in 1..Len(body) :
                                \/ IsContextLine(body[g])
                                \/ (g = Len(body) /\ body[g] = <<>>)) =>
                      /\ h.old_line_focus = -1
                      /\ h.new_line_focus = -1

\* the first lines of the maximal runs of consecutive lines satisfying Test
RunStarts(body, Test(_)) ==
    { p \in 1..Len(body) : Test(body[p]) /\ (p = 1 \/ ~Test(body[p - 1])) }

\* the length of the run that starts at line p
RunLen(body, p, Test(_)) ==
    Cardinality({ q \in p..Len(body) : \A g \in p..q : Test(body[g]) })

\* the body without the empty line a final line break leaves
BodyProper(body) ==
    IF Len(body) > 0 /\ body[Len(body)] = <<>>
    THEN SubSeq(body, 1, Len(body) - 1)
    ELSE body

\* a hunk whose header lengths are the line counts of its body
WellFormed(h) ==
    LET body == BodyProper(h.hunk_diff_lines)
    IN  /\ \A g \in 1..Len(body) : IsContextLine(body[g]) \/ IsChange(body[g])
        /\ h.old_hunk_len = Cardinality({ g \in 1..Len(body) : ~IsAdd(body[g]) })
        /\ h.new_hunk_len = Cardinality({ g \in 1..Len(body) : ~IsDel(body[g]) })

\* the regions of one side are the runs of that side's lines, in order
RegionsAreRuns(regions, body, start, len, Mine(_), Other(_), wellFormed) ==
    LET runs == RunStarts(body, Mine)
    IN  /\ Len(regions) = Cardinality(runs)
        /\ \A k \in 1..Len(regions) :
             LET p == Nth(runs, k)
                 r == regions[k]
             IN  /\ r.start_line
                       = start + Cardinality({ g \in 1..(p - 1) : ~Other(body[g]) })
                 /\ r.end_line = r.start_line + RunLen(body, p, Mine)
                 /\ r.start_col = 0 /\ r.end_col = 0
                 /\ r.start_line <= r.end_line
                 /\ wellFormed =>
                       /\ start <= r.start_line
                       /\ r.end_line <= start + len

\* C12: new_regions are, one for one and in order, the maximal runs of
\* consecutive '+' lines of the body and old_regions the maximal runs of '-'
\* lines, a run that reaches the last body line included; a region starts at
\* its side's line cursor at the first line of the run and ends run-length
\* lines later, both columns 0; in a well-formed hunk every region lies
\* within [start, start + len] of its side.
C12_RegionsAreRuns ==
    \A i \in 1..Len(hunks) :
        ~hunks[i].dummy =>
            LET h == hunks[i]
                wf == WellFormed(h)
            IN  /\ RegionsAreRuns(h.new_regions, h.hunk_diff_lines,
                                  h.new_line_start, h.new_hunk_len,
                                  IsAdd, IsDel, wf)
                /\ RegionsAreRuns(h.old_regions, h.hunk_diff_lines,
                                  h.old_line_start, h.old_hunk_len,
                                  IsDel, IsAdd, wf)

\* a hunk with two runs of '+' lines around a '-' line, the second run
\* reaching the last body line
C12_Witness ==
    \E i \in 1..Len(hunks) :
        /\ ~hunks[i].dummy
        /\ Len(hunks[i].new_regions) = 2
        /\ Len(hunks[i].old_regions) = 1
        /\ IsAdd(hunks[i].hunk_diff_lines[Len(hunks[i].hunk_diff_lines)])

\* the '+' lines and the '-' lines of a hunk body
CountLines(body, Test(_)) == Cardinality({ g \in 1..Len(body) : Test(body[g]) })

\* the hunk is classified as Classify says, from the '+' and '-' lines of its body
ClassifiedBy(Classify(_, _)) ==
    \A i \in 1..Len(hunks) :
        ~hunks[i].dummy =>
            LET h == hunks[i]
                added == CountLines(h.hunk_diff_lines, IsAdd)
                deleted == CountLines(h.hunk_diff_lines, IsDel)
            IN  /\ h.add_lines = added
                /\ h.del_lines = deleted
                /\ h.hunk_type = Classify(added, deleted)
                /\ (added > 0 /\ deleted = 0) => h.hunk_type = "ADD"
                /\ (deleted > 0 /\ added = 0) => h.hunk_type = "DEL"
                /\ (added > 0 /\ deleted > 0) => h.hunk_type = "MOD"

DelIfNoneAdded(added, deleted) ==
    IF added = 0 THEN "DEL" ELSE IF deleted = 0 THEN "ADD" ELSE "MOD"

AddIfNoneDeleted(added, deleted) ==
    IF deleted = 0 THEN "ADD" ELSE IF added = 0 THEN "DEL" ELSE "MOD"

\* C13 as stated: hunk_type is DEL if no line is added, else ADD if no line is
\* deleted, else MOD, so that a hunk with neither added nor deleted lines is
\* DEL.
C13_DelTestedFirst == ClassifiedBy(DelIfNoneAdded)

\* C13, amended: hunk_type is ADD if no line is deleted, else DEL if no line
\* is added, else MOD, so that a hunk with neither added nor deleted lines is
\* ADD; added lines only give ADD, deleted lines only DEL, both MOD.
C13_AddTestedFirst == ClassifiedBy(AddIfNoneDeleted)

\* a hunk with context lines only was classified, next to a hunk with both
\* kinds of lines
C13_Witness ==
    /\ \E i \in 1..Len(hunks) :
         /\ ~hunks[i].dummy
         /\ Len(hunks[i].hunk_diff_lines) > 0
         /\ hunks[i].add_lines = 0 /\ hunks[i].del_lines = 0
         /\ hunks[i].hunk_type = "ADD"
    /\ \E i \in 1..Len(hunks) : ~hunks[i].dummy /\ hunks[i].hunk_type = "MOD"

\* the one hunk of the example diff, once parsed
ExampleParsed == diff_text = ExampleDiff /\ parses >= 1

\* the example hunk has lengths 2 and 3, no old region, and one ADD region of
\* one line at line `at'; it is of type `type' and has both focus lines at `at'
ExampleYields(at, type) ==
    ExampleParsed =>
        LET real == RealHunks(hunks)
        IN  /\ Len(real) = 1
            /\ real[1].old_hunk_len = 2
            /\ real[1].new_hunk_len = 3
            /\ real[1].new_regions = << DiffRegion("ADD", at, 0, at + 1, 0) >>
            /\ real[1].old_regions = <<>>
            /\ real[1].hunk_type = type
            /\ real[1].old_line_focus = at
            /\ real[1].new_line_focus = at

\* C14 as stated: the hunk '@@ -10,2 +10,3 @@' with 'unchanged' on the header
\* line and the body '+new line', ' old line2' has old length 2, new length
\* 3, one ADD region of one line at line 11, no old region, type MOD and
\* both focus lines 11.
C14_ExampleAtLine11 == ExampleYields(11, "MOD")

\* C14, amended: that hunk has old length 2, new length 3, one ADD region of
\* one line at line 10, no old region, type ADD and both focus lines 10.
C14_ExampleAtLine10 == ExampleYields(10, "ADD")

\* the example diff was parsed into its hunk
C14_Witness ==
    /\ ExampleParsed
    /\ last_op.op = "get_hunks"
    /\ Len(RealHunks(hunks)) = 1
    /\ RealHunks(hunks)[1].context = SubSeq(LHeadEx, 18, Len(LHeadEx))
    /\ RealHunks(hunks)[1].hunk_diff_lines = << LAddEx, LCtxEx >>

\* the header lines of a diff text, read from the text: '@@ -' after a line
\* break
HeaderLinesIn(lines) ==
    { j \in 2..Len(lines) :
        Len(lines[j]) >= 4 /\ SubSeq(lines[j], 1, 4) = << "@", "@", " ", "-" >> }

\* the end of the word of l that starts at p
WordEnd(l, p) ==
    CHOOSE q \in p..Len(l) : l[q] = " " /\ \A g \in p..(q - 1) : l[g] # " "

\* the words 'start[,length]' of the old and of the new side of a header line
OldWord(l) == SubSeq(l, 5, WordEnd(l, 5) - 1)
NewWord(l) == SubSeq(l, WordEnd(l, 5) + 2, WordEnd(l, WordEnd(l, 5) + 2) - 1)

HasLengthField(word) == \E p \in 1..Len(word) : word[p] = ","

LengthField(word) ==
    LET p == CHOOSE p \in 1..Len(word) : word[p] = ","
    IN  int(SubSeq(word, p + 1, Len(word)))

\* the length a header word gives its side: the field, or 1 without field
HeaderLength(word) == IF HasLengthField(word) THEN LengthField(word) ELSE 1

\* the header line of the i-th hunk
HeaderOf(i) == TextLines[Nth(HeaderLinesIn(TextLines), i)]

\* a hunk whose body has '+' lines and no '-' line, and the other way round
OnlyAdds(h) ==
    CountLines(h.hunk_diff_lines, IsAdd) > 0 /\ CountLines(h.hunk_diff_lines, IsDel) = 0
OnlyDels(h) ==
    CountLines(h.hunk_diff_lines, IsDel) > 0 /\ CountLines(h.hunk_diff_lines, IsAdd) = 0

\* C15 as stated: a hunk with added lines and no deleted line has no old
\* region and old length 0, whatever the header says; a hunk with deleted
\* lines and no added line has no new region.
C15_AddHasOldLengthZero ==
    parses >= 1 =>
        LET real == RealHunks(hunks)
        IN  \A i \in 1..Len(real) :
                /\ OnlyAdds(real[i]) =>
                      real[i].old_regions = <<>> /\ real[i].old_hunk_len = 0
                /\ OnlyDels(real[i]) => real[i].new_regions = <<>>

\* C15, amended: a hunk with added lines and no deleted line has no old
\* region, and its old length is the one of its header, 1 if the header
\* leaves it out, so it is 0 only if the header says 0; a hunk with deleted
\* lines and no added line has no new region.
C15_AddHasHeaderOldLength ==
    parses >= 1 =>
        LET real == RealHunks(hunks)
        IN  \A i \in 1..Len(real) :
                /\ OnlyAdds(real[i]) =>
                      /\ real[i].old_regions = <<>>
                      /\ real[i].old_hunk_len = HeaderLength(OldWord(HeaderOf(i)))
                      /\ real[i].old_hunk_len = 0 <=>
                            /\ HasLengthField(OldWord(HeaderOf(i)))
                            /\ LengthField(OldWord(HeaderOf(i))) = 0
                /\ OnlyDels(real[i]) => real[i].new_regions = <<>>

\* a hunk with added lines only under a header of old length 2, then a hunk
\* with deleted lines only
C15_Witness ==
    /\ parses >= 1
    /\ Len(RealHunks(hunks)) = 2
    /\ OnlyAdds(RealHunks(hunks)[1])
    /\ RealHunks(hunks)[1].hunk_type = "ADD"
    /\ RealHunks(hunks)[1].old_hunk_len = 2
    /\ OnlyDels(RealHunks(hunks)[2])

\* C16: on each side the length of a hunk is the length field of its header
\* if the header has one, 0 included, and 1 if it has none, whatever the
\* header says for the other side.
C16_LengthFromHeader ==
    parses >= 1 =>
        LET real == RealHunks(hunks)
        IN  /\ Len(real) = Cardinality(HeaderLinesIn(TextLines))
            /\ \A i \in 1..Len(real) :
                 LET old == OldWord(HeaderOf(i))
                     new == NewWord(HeaderOf(i))
                 IN  /\ HasLengthField(old) => real[i].old_hunk_len = LengthField(old)
                     /\ ~HasLengthField(old) => real[i].old_hunk_len = 1
                     /\ HasLengthField(new) => real[i].new_hunk_len = LengthField(new)
                     /\ ~HasLengthField(new) => real[i].new_hunk_len = 1

\* a hunk whose header has length 0 for the old side and no length for the
\* new side, once parsed
C16_Witness ==
    /\ parses >= 1
    /\ Len(RealHunks(hunks)) = 1
    /\ HasLengthField(OldWord(HeaderOf(1)))
    /\ ~HasLengthField(NewWord(HeaderOf(1)))
    /\ RealHunks(hunks)[1].old_hunk_len = 0
    /\ RealHunks(hunks)[1].new_hunk_len = 1

(***************************************************************************)
(* Properties of the cached full regions and of merge                      *)
(***************************************************************************)
\* C17: the full region and the full text of a side of a hunk are set by the
\* first get_old_regions / get_new_regions call for that side, from the text
\* of the view at that moment, and no later step changes them, also when the
\* full region is empty.
C17_CacheSetOnce ==
    [][ \A i \in RealHunkIdx(hunks) :
          i <= Len(hunks') =>
            /\ hunks[i].full_old_region.set =>
                  /\ hunks'[i].full_old_region = hunks[i].full_old_region
                  /\ hunks'[i].full_old_text = hunks[i].full_old_text
            /\ hunks[i].full_new_region.set =>
                  /\ hunks'[i].full_new_region = hunks[i].full_new_region
                  /\ hunks'[i].full_new_text = hunks[i].full_new_text
            /\ (~hunks[i].full_old_region.set /\ hunks'[i].full_old_region.set) =>
                  /\ last_op'.op = "get_old_regions"
                  /\ hunks'[i].full_old_text
                        = substr(old_view, hunks'[i].full_old_region)
            /\ (~hunks[i].full_new_region.set /\ hunks'[i].full_new_region.set) =>
                  /\ last_op'.op = "get_new_regions"
                  /\ hunks'[i].full_new_text
                        = substr(new_view, hunks'[i].full_new_region)
      ]_vars

\* both sides of the hunk were queried
BothQueried(h) == h.full_old_region.set /\ h.full_new_region.set

\* C18: merge does not look at merge_valid: with both sides queried it runs
\* to its end in any state, adding 1 to merge_state for 'right' and
\* subtracting 1 for 'left'; a second merge 'right' in a row leaves
\* merge_state = 2, and then merge_valid is false for both directions.
C18_MergeNeverValidates ==
    [][ \A i \in RealHunkIdx(hunks) :
          /\ MergeDone(i, "right") =>
                hunks'[i].merge_state = hunks[i].merge_state + 1
          /\ MergeDone(i, "left") =>
                hunks'[i].merge_state = hunks[i].merge_state - 1
          /\ ( /\ last_op'.op = "merge"
               /\ last_op'.hunk = i
               /\ BothQueried(hunks[i]) ) => ~last_op'.raised
          /\ (MergeDone(i, "right") /\ hunks[i].merge_state = MERGED_RIGHT) =>
                /\ hunks'[i].merge_state = 2
                /\ ~merge_valid(hunks'[i], "right")
                /\ ~merge_valid(hunks'[i], "left")
      ]_vars

\* a hunk was merged right twice in a row
C18_Witness ==
    /\ last_op.op = "merge"
    /\ ~last_op.raised
    /\ last_op.direction = "right"
    /\ last_op.state_before = MERGED_RIGHT
    /\ hunks[last_op.hunk].merge_state = 2
    /\ ~merge_valid(hunks[last_op.hunk], "right")
    /\ ~merge_valid(hunks[last_op.hunk], "left")

SourceTextMissing(h, direction) ==
    IF direction = "right" THEN h.full_old_text = NoText
                           ELSE h.full_new_text = NoText

ChangingRegionMissing(h, direction) ==
    IF (direction = "right" /\ h.merge_state # MERGED_LEFT)
          \/ (direction = "left" /\ h.merge_state = MERGED_RIGHT)
    THEN ~h.full_new_region.set
    ELSE ~h.full_old_region.set

\* C20: a freshly parsed hunk has no full text and no full region; only
\* get_old_regions / get_new_regions gives it those of its side; a merge that
\* finds the text of the source side or the full region of the changing side
\* missing does not complete and leaves merge_state and the views as they
\* were.
C20_MergeNeedsQueries ==
    [][ /\ \A i \in RealHunkIdx(hunks') :
            Len(hunks) = 0 =>
               /\ hunks'[i].full_old_text = NoText
               /\ hunks'[i].full_new_text = NoText
               /\ ~hunks'[i].full_old_region.set
               /\ ~hunks'[i].full_new_region.set
        /\ \A i \in RealHunkIdx(hunks) :
            i <= Len(hunks') =>
               /\ ( \/ hunks[i].full_old_text = NoText /\ hunks'[i].full_old_text # NoText
                    \/ ~hunks[i].full_old_region.set /\ hunks'[i].full_old_region.set )
                  => (last_op'.op = "get_old_regions" /\ last_op'.hunk = i)
               /\ ( \/ hunks[i].full_new_text = NoText /\ hunks'[i].full_new_text # NoText
                    \/ ~hunks[i].full_new_region.set /\ hunks'[i].full_new_region.set )
                  => (last_op'.op = "get_new_regions" /\ last_op'.hunk = i)
        /\ last_op'.op = "merge" =>
              LET h == hunks[last_op'.hunk]
                  d == last_op'.direction
              IN  (SourceTextMissing(h, d) \/ ChangingRegionMissing(h, d)) =>
                     /\ last_op'.raised
                     /\ hunks'[last_op'.hunk].merge_state = h.merge_state
                     /\ UNCHANGED <<hunks, old_view, new_view>>
      ]_vars

\* merge('right') was called on a fresh hunk of which the new side was
\* never queried
C20_Witness ==
    /\ last_op.op = "merge"
    /\ last_op.raised
    /\ last_op.direction = "right"
    /\ last_op.state_before = UNMERGED
    /\ hunks[last_op.hunk].full_old_text # NoText
    /\ ~hunks[last_op.hunk].full_new_region.set
    /\ hunks[last_op.hunk].merge_state = UNMERGED

====
